---------------------------- MODULE Spec2Model ----------------------------
(***************************************************************************)
(* Model of jixiaowen/untar: the streaming pipeline of                     *)
(* Processor::process_tar (src/src/processor.rs) and the Unix-compress     *)
(* decoder ZDecoder (src/src/decompress.rs).                               *)
(*                                                                         *)
(* Three specifications share the module.  Spec runs process_tar over an   *)
(* archive that unfolds entry by entry, with the per-entry upload tasks    *)
(* interleaved with the traversal.  SpecZ runs one ZDecoder over a byte    *)
(* stream chosen in the initial state.  SpecN applies the naming of an     *)
(* entry (lookup name, codec, target name) to one entry path.              *)
(***************************************************************************)
EXTENDS Integers, Sequences, FiniteSets, TLC

VARIABLES
    \* ---- process_tar (processor.rs) ----
    file_map,         \* Config.file_map: manifest filename -> expected size
    pc,               \* position of the traversal task inside process_tar
    nread,            \* archive entries yielded so far by the tar iterator
    cur,              \* the entry being decompressed (path, data, fails)
    curpos,           \* decompressed bytes of cur already returned by read
    pending,          \* buffer[..n].to_vec() handed to tx.send, not yet accepted
    curtask,          \* index in tasks of the upload task spawned for cur
    upload_handles,   \* Vec of JoinHandles, as indices into tasks
    joining,          \* the handle being awaited (0: none)
    processed_files,  \* the observed-set
    tasks,            \* one record per spawned upload task, in spawn order
    result,           \* process_tar's return value ("running" until it returns)
    xml,              \* progress of the manifest upload
    \* ---- ZDecoder (decompress.rs) ----
    inner,            \* the bytes the wrapped reader will deliver
    inpos,            \* bytes of inner consumed so far
    zd,               \* the ZDecoder struct
    rd,               \* the read() call in progress
    plain,            \* SpecZ only: the bytes the stream was encoded from
    out,              \* every byte returned by completed read() calls
    \* ---- naming of one entry (processor.rs 39-59) ----
    fname,            \* SpecN only: entry.path()
    named             \* SpecN only: lookup_name, format and target_name of fname

pvars == <<file_map, pc, nread, cur, curpos, pending, curtask, upload_handles,
           joining, processed_files, tasks, result, xml>>
zvars == <<inner, inpos, zd, rd, plain, out>>
nvars == <<fname, named>>
vars == <<pvars, zvars, nvars>>

-----------------------------------------------------------------------------
(* Bounds of the inputs: the entries of an archive and the decompressed    *)
(* bytes of an entry.                                                      *)
MaxEntries == 3
MaxData == 3

(* The program's capacities, scaled down: the channel holds 16 chunks      *)
(* (processor.rs 62), the read buffer 65536 bytes (processor.rs 92) and    *)
(* the throttle applies at 10 handles (processor.rs 111).                  *)
ChanCap == 2
BufSize == 2
InFlightCap == 2

Min(a, b) == IF a < b THEN a ELSE b

-----------------------------------------------------------------------------
(* Strings are sequences of one-character strings.                         *)
DotGz == <<".", "g", "z">>
DotZ == <<".", "Z">>

EndsWith(s, suf) ==
    /\ Len(s) >= Len(suf)
    /\ SubSeq(s, Len(s) - Len(suf) + 1, Len(s)) = suf

\* str::trim_end_matches: every repetition of the suffix is removed.
RECURSIVE TrimEndMatches(_, _)
TrimEndMatches(s, suf) ==
    IF EndsWith(s, suf)
    THEN TrimEndMatches(SubSeq(s, 1, Len(s) - Len(suf)), suf)
    ELSE s

get_format(filename) ==
    IF EndsWith(filename, DotGz) THEN "Gzip"
    ELSE IF EndsWith(filename, DotZ) THEN "UnixCompress"
    ELSE "None"

lookup_name(path) == TrimEndMatches(TrimEndMatches(path, DotGz), DotZ)

target_name(path) == TrimEndMatches(TrimEndMatches(path, DotGz), DotZ)

hdfs_base_path == <<"d">>
xml_file_path == <<"m">>
target_path(path) == hdfs_base_path \o <<"/">> \o target_name(path)

get_expected_size(fm, filename) ==
    IF filename \in DOMAIN fm THEN fm[filename] ELSE -1

-----------------------------------------------------------------------------
(* Inputs of process_tar.                                                  *)
NameA == <<"a">>
NameB == <<"b">>

\* Manifests: every subset of {a, b}, a declared with 1 byte and b with 2.
DeclaredSize(n) == IF n = NameA THEN 1 ELSE 2
Manifests == { [n \in S |-> DeclaredSize(n)] : S \in SUBSET {NameA, NameB} }

\* The decompressed content of an entry of n bytes: the bytes 1..n.
DataOf(n) == [i \in 1..n |-> i]

\* ok = FALSE: the tar iterator yields Err for this entry.  fails = TRUE:
\* the decoder returns Err once it has delivered data.
\* "a.gz" comes empty, with its declared length and with the greatest
\* length, and with a decoder failing at its first read or after one byte; "b.Z" comes with its declared length; "c" is in
\* no manifest.
Entry(p, n, f) == [ok |-> TRUE, path |-> p, data |-> DataOf(n), fails |-> f]
BadEntry == [ok |-> FALSE, path |-> <<>>, data |-> <<>>, fails |-> FALSE]
Entries ==
    { Entry(<<"a", ".", "g", "z">>, n, FALSE) : n \in {0, 1, MaxData} }
    \cup { Entry(<<"a", ".", "g", "z">>, n, TRUE) : n \in 0..1 }
    \cup { Entry(<<"b", ".", "Z">>, 2, FALSE), Entry(<<"c">>, 1, FALSE) }
    \cup { BadEntry }

NoEntry == [ok |-> FALSE, path |-> <<>>, data |-> <<>>, fails |-> FALSE]

Failure(kind, name) == [kind |-> kind, name |-> name]
Success == [kind |-> "Ok", name |-> <<>>]
Running == [kind |-> "running", name |-> <<>>]


-----------------------------------------------------------------------------
(* The upload task of one entry (processor.rs 67-88) and its channel        *)
(* (processor.rs 62).  tx / rx tell whether the Sender / Receiver is alive, *)
(* hand is the chunk taken by recv and not yet written, written the chunks  *)
(* the remote writer accepted, produced the chunks the decompression loop   *)
(* obtained from the decoder for this entry.                                *)
NewTask(path, size) ==
    [ pc |-> "create", path |-> path, target |-> target_path(path),
      expected |-> size, total_written |-> 0, hand |-> <<>>,
      written |-> <<>>, produced |-> <<>>, chan |-> <<>>,
      tx |-> TRUE, rx |-> TRUE, outcome |-> "none" ]

TaskIds == 1..Len(tasks)

\* The task returns: its Receiver is dropped and what the channel still
\* buffers is dropped with it.
TaskEndsHolding(t, outcome) ==
    [t EXCEPT !.pc = "done", !.outcome = outcome]
TaskEnds(t, outcome) ==
    [t EXCEPT !.pc = "done", !.outcome = outcome, !.rx = FALSE,
              !.chan = <<>>, !.hand = <<>>]

\* processor.rs 83-87.
SizeCheckOneSided(total, expected) ==
    IF total < expected THEN "SizeMismatch" ELSE "Ok"
SizeCheck(total, expected) ==
    IF total # expected THEN "SizeMismatch" ELSE "Ok"

\* mpsc::channel(16): a send is accepted while fewer than capacity chunks
\* are buffered.
HasCapacityUnbounded(ch) == TRUE
HasCapacity(ch) == Len(ch) < ChanCap

\* The channel is a FIFO queue.
EnqueueFront(ch, chunk) == <<chunk>> \o ch
Enqueue(ch, chunk) == Append(ch, chunk)

\* client.create(target, overwrite).await (processor.rs 68-72).
TaskCreate(i) ==
    /\ tasks[i].pc = "create"
    /\ \/ tasks' = [tasks EXCEPT ![i].pc = "recv"]
       \/ tasks' = [tasks EXCEPT ![i] = TaskEnds(@, "Create")]
    /\ UNCHANGED <<file_map, pc, nread, cur, curpos, pending, curtask,
                   upload_handles, joining, processed_files, result, xml>>
    /\ UNCHANGED <<zvars, nvars>>

\* rx.recv().await returning Some(chunk) (processor.rs 74-75).
TaskRecv(i) ==
    /\ tasks[i].pc = "recv"
    /\ tasks[i].chan # <<>>
    /\ tasks' = [tasks EXCEPT
                   ![i].hand = Head(tasks[i].chan),
                   ![i].chan = Tail(tasks[i].chan),
                   ![i].total_written = @ + Len(Head(tasks[i].chan)),
                   ![i].pc = "write"]
    /\ UNCHANGED <<file_map, pc, nread, cur, curpos, pending, curtask,
                   upload_handles, joining, processed_files, result, xml>>
    /\ UNCHANGED <<zvars, nvars>>

\* writer.write(chunk).await (processor.rs 76-77).
TaskWrite(i) ==
    /\ tasks[i].pc = "write"
    /\ \/ tasks' = [tasks EXCEPT
                      ![i].written = Append(@, tasks[i].hand),
                      ![i].hand = <<>>,
                      ![i].pc = "recv"]
       \/ tasks' = [tasks EXCEPT ![i] = TaskEnds(@, "Write")]
    /\ UNCHANGED <<file_map, pc, nread, cur, curpos, pending, curtask,
                   upload_handles, joining, processed_files, result, xml>>
    /\ UNCHANGED <<zvars, nvars>>

\* rx.recv().await returning None: every Sender is dropped and the channel
\* is drained; then writer.close().await and the size check
\* (processor.rs 74, 80-87).
TaskClose(i) ==
    /\ tasks[i].pc = "recv"
    /\ tasks[i].chan = <<>>
    /\ ~tasks[i].tx
    /\ \/ tasks' = [tasks EXCEPT ![i] =
                      TaskEnds(@, SizeCheck(tasks[i].total_written,
                                            tasks[i].expected))]
       \/ tasks' = [tasks EXCEPT ![i] = TaskEnds(@, "Close")]
    /\ UNCHANGED <<file_map, pc, nread, cur, curpos, pending, curtask,
                   upload_handles, joining, processed_files, result, xml>>
    /\ UNCHANGED <<zvars, nvars>>

-----------------------------------------------------------------------------
(* The traversal task: process_tar itself (processor.rs 30-155).           *)

\* processor.rs 111: the throttle's condition on upload_handles.
ThrottleLate(handles) == Len(handles) > InFlightCap
Throttle(handles) == Len(handles) >= InFlightCap

\* processor.rs 123-128: the manifest filenames the cross-check reports.
MissingNone(fm, seen) == {}
Missing(fm, seen) == { f \in DOMAIN fm : f \notin seen }

\* processor.rs 43-52: the observed-set after looking up name.
ObserveAlways(seen, fm, name) == seen \cup {name}
Observe(seen, fm, name) ==
    IF get_expected_size(fm, name) # -1 THEN seen \cup {name} ELSE seen

\* The JoinHandle's result as process_tar reports it (the ?? of
\* processor.rs 113 and 119).
JoinedOkIgnored(t) == TRUE
JoinedOk(t) == t.outcome = "Ok"

JoinFailure(t) == Failure(t.outcome, t.path)

\* The for loop over upload_handles starts (processor.rs 118): the first
\* handle is awaited, or the loop is empty and the cross-check follows.
StartFinal(handles) ==
    IF handles = <<>>
    THEN /\ pc' = "check"
         /\ joining' = 0
         /\ upload_handles' = <<>>
    ELSE /\ pc' = "final"
         /\ joining' = Head(handles)
         /\ upload_handles' = Tail(handles)

\* The decompression loop is left by break (processor.rs 95, 98): drop(tx),
\* the handle is pushed and the throttle applies (processor.rs 106-114).
LeaveLoopOpen ==
    LET pushed == Append(upload_handles, curtask) IN
    /\ tasks' = tasks
    /\ IF Throttle(pushed)
       THEN /\ joining' = Head(pushed)
            /\ upload_handles' = Tail(pushed)
            /\ pc' = "throttle"
       ELSE /\ joining' = 0
            /\ upload_handles' = pushed
            /\ pc' = "next"
    /\ cur' = NoEntry
    /\ curpos' = 0
    /\ curtask' = 0
    /\ pending' = <<>>
LeaveLoop ==
    LET pushed == Append(upload_handles, curtask) IN
    /\ tasks' = [tasks EXCEPT ![curtask].tx = FALSE]
    /\ IF Throttle(pushed)
       THEN /\ joining' = Head(pushed)
            /\ upload_handles' = Tail(pushed)
            /\ pc' = "throttle"
       ELSE /\ joining' = 0
            /\ upload_handles' = pushed
            /\ pc' = "next"
    /\ cur' = NoEntry
    /\ curpos' = 0
    /\ curtask' = 0
    /\ pending' = <<>>

\* The tar iterator yields Err (processor.rs 38-39).
EntryError(e) ==
    /\ pc = "next"
    /\ nread < MaxEntries
    /\ ~e.ok
    /\ nread' = nread + 1
    /\ result' = Failure("TarEntry", <<>>)
    /\ pc' = "done"
    /\ UNCHANGED <<file_map, cur, curpos, pending, curtask, upload_handles,
                   joining, processed_files, tasks, xml>>
    /\ UNCHANGED <<zvars, nvars>>

\* An entry the manifest does not list (processor.rs 41-43, 48-51).
SkipEntry(e) ==
    /\ pc = "next"
    /\ nread < MaxEntries
    /\ e.ok
    /\ get_expected_size(file_map, lookup_name(e.path)) = -1
    /\ nread' = nread + 1
    /\ processed_files' = Observe(processed_files, file_map, lookup_name(e.path))
    /\ UNCHANGED <<file_map, pc, cur, curpos, pending, curtask, upload_handles,
                   joining, tasks, result, xml>>
    /\ UNCHANGED <<zvars, nvars>>

\* An entry the manifest lists: it is observed, its channel is created and
\* its upload task spawned, and the decoder wrapped (processor.rs 41-47,
\* 54-92).
StartEntry(e) ==
    /\ pc = "next"
    /\ nread < MaxEntries
    /\ e.ok
    /\ get_expected_size(file_map, lookup_name(e.path)) # -1
    /\ nread' = nread + 1
    /\ processed_files' = Observe(processed_files, file_map, lookup_name(e.path))
    /\ tasks' = Append(tasks,
                   NewTask(e.path, get_expected_size(file_map, lookup_name(e.path))))
    /\ cur' = e
    /\ curpos' = 0
    /\ curtask' = Len(tasks) + 1
    /\ pc' = "read"
    /\ UNCHANGED <<file_map, pending, upload_handles, joining, result, xml>>
    /\ UNCHANGED <<zvars, nvars>>

\* decoder.read(&mut buffer) returns Ok(n), n > 0 (processor.rs 94, 96).
ReadChunk ==
    /\ pc = "read"
    /\ curpos < Len(cur.data)
    /\ \E n \in 1..Min(BufSize, Len(cur.data) - curpos) :
         /\ pending' = SubSeq(cur.data, curpos + 1, curpos + n)
         /\ curpos' = curpos + n
         /\ tasks' = [tasks EXCEPT ![curtask].produced =
                        Append(@, SubSeq(cur.data, curpos + 1, curpos + n))]
    /\ pc' = "send"
    /\ UNCHANGED <<file_map, nread, cur, curtask, upload_handles, joining,
                   processed_files, result, xml>>
    /\ UNCHANGED <<zvars, nvars>>

\* decoder.read returns Ok(0) (processor.rs 95).
ReadEof ==
    /\ pc = "read"
    /\ curpos = Len(cur.data)
    /\ ~cur.fails
    /\ LeaveLoop
    /\ UNCHANGED <<file_map, nread, processed_files, result, xml>>
    /\ UNCHANGED <<zvars, nvars>>

\* decoder.read returns Err: process_tar returns at once and its locals,
\* tx among them, are dropped (processor.rs 101-103).
ReadErr ==
    /\ pc = "read"
    /\ curpos = Len(cur.data)
    /\ cur.fails
    /\ result' = Failure("Decompression", cur.path)
    /\ pc' = "done"
    /\ tasks' = [tasks EXCEPT ![curtask].tx = FALSE]
    /\ UNCHANGED <<file_map, nread, cur, curpos, pending, curtask,
                   upload_handles, joining, processed_files, xml>>
    /\ UNCHANGED <<zvars, nvars>>

\* tx.send(chunk).await is accepted (processor.rs 97).
SendOk ==
    /\ pc = "send"
    /\ tasks[curtask].rx
    /\ HasCapacity(tasks[curtask].chan)
    /\ tasks' = [tasks EXCEPT ![curtask].chan = Enqueue(@, pending)]
    /\ pending' = <<>>
    /\ pc' = "read"
    /\ UNCHANGED <<file_map, nread, cur, curpos, curtask, upload_handles,
                   joining, processed_files, result, xml>>
    /\ UNCHANGED <<zvars, nvars>>

\* tx.send(chunk).await fails, the Receiver being dropped (processor.rs
\* 97-99).
SendErr ==
    /\ pc = "send"
    /\ ~tasks[curtask].rx
    /\ LeaveLoop
    /\ UNCHANGED <<file_map, nread, processed_files, result, xml>>
    /\ UNCHANGED <<zvars, nvars>>

\* upload_handles.remove(0).await?? completes (processor.rs 113).
JoinOldest ==
    /\ pc = "throttle"
    /\ tasks[joining].pc = "done"
    /\ joining' = 0
    /\ IF JoinedOk(tasks[joining])
       THEN /\ pc' = "next"
            /\ UNCHANGED result
       ELSE /\ pc' = "done"
            /\ result' = JoinFailure(tasks[joining])
    /\ UNCHANGED <<file_map, nread, cur, curpos, pending, curtask,
                   upload_handles, processed_files, tasks, xml>>
    /\ UNCHANGED <<zvars, nvars>>

\* The tar iterator is exhausted (processor.rs 37, 115-118).
EndOfArchive ==
    /\ pc = "next"
    /\ StartFinal(upload_handles)
    /\ UNCHANGED <<file_map, nread, cur, curpos, pending, curtask,
                   processed_files, tasks, result, xml>>
    /\ UNCHANGED <<zvars, nvars>>

\* handle.await?? completes in the final loop (processor.rs 118-120).
JoinFinal ==
    /\ pc = "final"
    /\ tasks[joining].pc = "done"
    /\ IF JoinedOk(tasks[joining])
       THEN /\ StartFinal(upload_handles)
            /\ UNCHANGED result
       ELSE /\ pc' = "done"
            /\ joining' = 0
            /\ result' = JoinFailure(tasks[joining])
            /\ UNCHANGED upload_handles
    /\ UNCHANGED <<file_map, nread, cur, curpos, pending, curtask,
                   processed_files, tasks, xml>>
    /\ UNCHANGED <<zvars, nvars>>

\* The cross-check (processor.rs 122-128).  HashMap::keys iterates in an
\* arbitrary order: any missing filename may be the one reported.
CrossCheck ==
    /\ pc = "check"
    /\ IF Missing(file_map, processed_files) # {}
       THEN /\ \E f \in Missing(file_map, processed_files) :
                 result' = Failure("MissingInArchive", f)
            /\ pc' = "done"
       ELSE /\ pc' = "xml"
            /\ UNCHANGED result
    /\ UNCHANGED <<file_map, nread, cur, curpos, pending, curtask,
                   upload_handles, joining, processed_files, tasks, xml>>
    /\ UNCHANGED <<zvars, nvars>>

\* std::fs::read of the manifest, its file name, client.create
\* (processor.rs 130-144).
XmlCreate ==
    /\ pc = "xml"
    /\ \/ /\ xml' = "created"
          /\ pc' = "xml_write"
          /\ UNCHANGED result
       \/ /\ \E k \in {"XmlRead", "Create"} : result' = Failure(k, xml_file_path)
          /\ pc' = "done"
          /\ UNCHANGED xml
    /\ UNCHANGED <<file_map, nread, cur, curpos, pending, curtask,
                   upload_handles, joining, processed_files, tasks>>
    /\ UNCHANGED <<zvars, nvars>>

\* writer.write(xml_content).await (processor.rs 146-147).
XmlWrite ==
    /\ pc = "xml_write"
    /\ \/ /\ xml' = "written"
          /\ pc' = "xml_close"
          /\ UNCHANGED result
       \/ /\ result' = Failure("Write", xml_file_path)
          /\ pc' = "done"
          /\ UNCHANGED xml
    /\ UNCHANGED <<file_map, nread, cur, curpos, pending, curtask,
                   upload_handles, joining, processed_files, tasks>>
    /\ UNCHANGED <<zvars, nvars>>

\* writer.close().await and Ok(()) (processor.rs 149-154).
XmlClose ==
    /\ pc = "xml_close"
    /\ \/ /\ xml' = "closed"
          /\ result' = Success
       \/ /\ result' = Failure("Close", xml_file_path)
          /\ UNCHANGED xml
    /\ pc' = "done"
    /\ UNCHANGED <<file_map, nread, cur, curpos, pending, curtask,
                   upload_handles, joining, processed_files, tasks>>
    /\ UNCHANGED <<zvars, nvars>>

-----------------------------------------------------------------------------
(* ZDecoder (decompress.rs 31-198).                                        *)
(*                                                                         *)
(* The table is the pair of vectors prefixes and chars; code c is held at  *)
(* index c + 1.  TLC's integers are 32 bits wide and signed, so the        *)
(* sentinel u32::MAX is written -1: like u32::MAX it is no code, the codes *)
(* being 0 .. 2^16 - 1.                                                     *)
U32_MAX == -1
INIT_BITS == 9
CLEAR == 256

\* ZDecoder::empty (decompress.rs 93-109).
EmptyNotEof ==
    [ eof |-> FALSE, max_bits |-> 0, block_mode |-> FALSE, current_bits |-> 0,
      max_code |-> 0, prefixes |-> <<>>, chars |-> <<>>, prefix |-> U32_MAX,
      buffer |-> 0, bits_in_buffer |-> 0, output_buffer |-> <<>>,
      output_pos |-> 0 ]
empty ==
    [ eof |-> TRUE, max_bits |-> 0, block_mode |-> FALSE, current_bits |-> 0,
      max_code |-> 0, prefixes |-> <<>>, chars |-> <<>>, prefix |-> U32_MAX,
      buffer |-> 0, bits_in_buffer |-> 0, output_buffer |-> <<>>,
      output_pos |-> 0 ]

\* The seeded table (decompress.rs 67-74).
SeedLen(block_mode) == IF block_mode THEN 257 ELSE 256
SeedPrefixes(block_mode) == [i \in 1..SeedLen(block_mode) |-> U32_MAX]
SeedChars(block_mode) ==
    [i \in 1..SeedLen(block_mode) |-> IF i <= 256 THEN i - 1 ELSE 0]

\* ZDecoder::new with a well-formed magic (decompress.rs 60-91).
new(h2) ==
    LET block_mode == (h2 \div 128) % 2 = 1 IN
    [ eof |-> FALSE, max_bits |-> h2 % 32, block_mode |-> block_mode,
      current_bits |-> INIT_BITS, max_code |-> 2^INIT_BITS - 1,
      prefixes |-> SeedPrefixes(block_mode), chars |-> SeedChars(block_mode),
      prefix |-> U32_MAX, buffer |-> 0, bits_in_buffer |-> 0,
      output_buffer |-> <<>>, output_pos |-> 0 ]

\* The header test of ZDecoder::new (decompress.rs 55-58): read_exact fails
\* on a stream of fewer than three bytes.
HeaderOk(stream) ==
    /\ Len(stream) >= 3
    /\ stream[1] = 31
    /\ stream[2] = 157

\* ZDecoder::read_code (decompress.rs 111-125).  The bytes are taken from
\* stream at position pos; some = FALSE is Ok(None).
RECURSIVE FillBuffer(_, _, _, _, _)
FillBuffer(stream, buffer, bits, pos, need) ==
    IF bits >= need
    THEN [some |-> TRUE, buffer |-> buffer, bits |-> bits, pos |-> pos]
    ELSE IF pos >= Len(stream)
    THEN [some |-> FALSE, buffer |-> buffer, bits |-> bits, pos |-> pos]
    ELSE FillBuffer(stream, buffer + stream[pos + 1] * 2^bits, bits + 8,
                    pos + 1, need)

read_code(z, stream, pos) ==
    LET f == FillBuffer(stream, z.buffer, z.bits_in_buffer, pos, z.current_bits) IN
    IF f.some
    THEN [ some |-> TRUE, code |-> f.buffer % 2^z.current_bits,
           buffer |-> f.buffer \div 2^z.current_bits,
           bits_in_buffer |-> f.bits - z.current_bits, pos |-> f.pos ]
    ELSE [ some |-> FALSE, code |-> 0, buffer |-> f.buffer,
           bits_in_buffer |-> f.bits, pos |-> f.pos ]

Reverse(s) == [i \in 1..Len(s) |-> s[Len(s) + 1 - i]]

\* ZDecoder::expand_code (decompress.rs 127-136): the bytes are pushed from
\* the code back to its root, then reversed.
RECURSIVE WalkCode(_, _, _)
WalkCode(prefixes, chars, curr) ==
    IF curr = U32_MAX THEN <<>>
    ELSE <<chars[curr + 1]>> \o WalkCode(prefixes, chars, prefixes[curr + 1])

expand_code(prefixes, chars, code, outv) ==
    outv \o Reverse(WalkCode(prefixes, chars, code))

\* The three cases of a code that is not CLEAR (decompress.rs 168-176).
IsClear(z, code) == z.block_mode /\ code = CLEAR
IsKnown(z, code) == code < Len(z.prefixes)
IsKwKwKLoose(z, code) == code >= Len(z.prefixes) /\ z.prefix # U32_MAX
IsKwKwK(z, code) == code = Len(z.prefixes) /\ z.prefix # U32_MAX

\* decompress.rs 157-161.
ClearTableKeepsPrefix(z) ==
    [z EXCEPT !.prefixes = SubSeq(@, 1, Min(257, Len(@))),
              !.chars = SubSeq(@, 1, Min(257, Len(@))),
              !.current_bits = INIT_BITS,
              !.max_code = 2^INIT_BITS - 1]
ClearTableKept(z) ==
    [z EXCEPT !.current_bits = INIT_BITS,
              !.max_code = 2^INIT_BITS - 1,
              !.prefix = U32_MAX]
ClearTable(z) ==
    [z EXCEPT !.prefixes = SubSeq(@, 1, Min(257, Len(@))),
              !.chars = SubSeq(@, 1, Min(257, Len(@))),
              !.current_bits = INIT_BITS,
              !.max_code = 2^INIT_BITS - 1,
              !.prefix = U32_MAX]

\* decompress.rs 165-173: the output buffer for a resolvable code.
ResolveLastByte(z, code) ==
    IF IsKnown(z, code)
    THEN expand_code(z.prefixes, z.chars, code, <<>>)
    ELSE LET w == expand_code(z.prefixes, z.chars, z.prefix, <<>>) IN
         Append(w, w[Len(w)])
Resolve(z, code) ==
    IF IsKnown(z, code)
    THEN expand_code(z.prefixes, z.chars, code, <<>>)
    ELSE LET w == expand_code(z.prefixes, z.chars, z.prefix, <<>>) IN
         Append(w, w[1])

\* decompress.rs 183-186.
GrowWidthLate(z) ==
    IF Len(z.prefixes) > z.max_code + 1 /\ z.current_bits < z.max_bits
    THEN [z EXCEPT !.current_bits = @ + 1, !.max_code = 2^(z.current_bits + 1) - 1]
    ELSE z
GrowWidth(z) ==
    IF Len(z.prefixes) > z.max_code /\ z.current_bits < z.max_bits
    THEN [z EXCEPT !.current_bits = @ + 1, !.max_code = 2^(z.current_bits + 1) - 1]
    ELSE z

\* decompress.rs 178-187.
AddEntryUnbounded(z) ==
    IF z.prefix # U32_MAX
    THEN GrowWidth([z EXCEPT !.prefixes = Append(@, z.prefix),
                             !.chars = Append(@, z.output_buffer[1])])
    ELSE z
AddEntry(z) ==
    IF z.prefix # U32_MAX /\ Len(z.prefixes) < 2^z.max_bits
    THEN GrowWidth([z EXCEPT !.prefixes = Append(@, z.prefix),
                             !.chars = Append(@, z.output_buffer[1])])
    ELSE z

\* decompress.rs 165-188 for a resolvable code.
Decode(z, code) ==
    [AddEntry([z EXCEPT !.output_buffer = Resolve(z, code), !.output_pos = 0])
        EXCEPT !.prefix = code]

\* The bit buffer after read_code.
Consumed(z, r) == [z EXCEPT !.buffer = r.buffer, !.bits_in_buffer = r.bits_in_buffer]

-----------------------------------------------------------------------------
(* The calls on a ZDecoder: new, then read after read.  rd.pc is "new"     *)
(* before construction, "idle" between calls, "loop" inside read's while   *)
(* loop and "failed" once read returned Err, after which the caller reads  *)
(* no further (processor.rs 101-103).  rd.got are the bytes copied into    *)
(* buf by the call in progress, rd.last the count the last call returned.  *)
ZBufLen == 2

NotReading == [pc |-> "idle", buflen |-> 0, written |-> 0, got |-> <<>>, last |-> -1]

ZIdle == UNCHANGED <<pvars, nvars>>

\* ZDecoder::new (decompress.rs 54-91).  read_exact consumes the three
\* header bytes, or all there is of a shorter stream.
ZNew ==
    /\ rd.pc = "new"
    /\ inpos' = Min(3, Len(inner))
    /\ zd' = IF HeaderOk(inner) THEN new(inner[3]) ELSE empty
    /\ rd' = NotReading
    /\ UNCHANGED <<inner, plain, out>>
    /\ ZIdle

\* read(buf) is called with a buffer of n bytes (decompress.rs 140-141).
ZRead(n) ==
    /\ rd.pc = "idle"
    /\ rd' = [rd EXCEPT !.pc = "loop", !.buflen = n, !.written = 0, !.got = <<>>]
    /\ UNCHANGED <<inner, inpos, zd, plain, out>>
    /\ ZIdle

OutputLeft == zd.output_pos < Len(zd.output_buffer)
InLoop == rd.pc = "loop" /\ rd.written < rd.buflen

\* Pending output is copied into buf (decompress.rs 144-150).
ZCopy ==
    /\ InLoop
    /\ OutputLeft
    /\ LET n == Min(rd.buflen - rd.written, Len(zd.output_buffer) - zd.output_pos) IN
         /\ rd' = [rd EXCEPT !.written = @ + n,
                             !.got = @ \o SubSeq(zd.output_buffer, zd.output_pos + 1,
                                                 zd.output_pos + n)]
         /\ zd' = [zd EXCEPT !.output_pos = @ + n]
    /\ UNCHANGED <<inner, inpos, plain, out>>
    /\ ZIdle

\* read returns Ok(written): buf is full, or the stream has ended
\* (decompress.rs 143, 152, 196).
ZReturn ==
    /\ rd.pc = "loop"
    /\ \/ rd.written = rd.buflen
       \/ ~OutputLeft /\ zd.eof
    /\ out' = out \o rd.got
    /\ rd' = [NotReading EXCEPT !.last = rd.written]
    /\ UNCHANGED <<inner, inpos, zd, plain>>
    /\ ZIdle

NextCode == read_code(zd, inner, inpos)
AtCode == InLoop /\ ~OutputLeft /\ ~zd.eof

\* read_code returns None: eof is set and read returns (decompress.rs
\* 190-193, 196).
ZEof ==
    /\ AtCode
    /\ ~NextCode.some
    /\ zd' = [Consumed(zd, NextCode) EXCEPT !.eof = TRUE]
    /\ inpos' = NextCode.pos
    /\ out' = out \o rd.got
    /\ rd' = [NotReading EXCEPT !.last = rd.written]
    /\ UNCHANGED <<inner, plain>>
    /\ ZIdle

\* The CLEAR code (decompress.rs 156-163).
ZClear ==
    /\ AtCode
    /\ NextCode.some
    /\ IsClear(zd, NextCode.code)
    /\ zd' = ClearTable(Consumed(zd, NextCode))
    /\ inpos' = NextCode.pos
    /\ UNCHANGED <<inner, rd, plain, out>>
    /\ ZIdle

\* A code of the table, or the next code to allocate (decompress.rs
\* 165-188).
ZDecode ==
    /\ AtCode
    /\ NextCode.some
    /\ ~IsClear(zd, NextCode.code)
    /\ IsKnown(zd, NextCode.code) \/ IsKwKwK(zd, NextCode.code)
    /\ zd' = Decode(Consumed(zd, NextCode), NextCode.code)
    /\ inpos' = NextCode.pos
    /\ UNCHANGED <<inner, rd, plain, out>>
    /\ ZIdle

\* Any other code: read returns Err(InvalidData), the output buffer having
\* been cleared (decompress.rs 165-166, 174-176).
ZInvalid ==
    /\ AtCode
    /\ NextCode.some
    /\ ~IsClear(zd, NextCode.code)
    /\ ~IsKnown(zd, NextCode.code)
    /\ ~IsKwKwK(zd, NextCode.code)
    /\ zd' = [Consumed(zd, NextCode) EXCEPT !.output_buffer = <<>>, !.output_pos = 0]
    /\ inpos' = NextCode.pos
    /\ rd' = [rd EXCEPT !.pc = "failed"]
    /\ UNCHANGED <<inner, plain, out>>
    /\ ZIdle

-----------------------------------------------------------------------------
(* The encoder of compress(1), the reference of the round trip: LZW with   *)
(* codes from 256 (257 in block mode), written low bits first at a width   *)
(* that starts at 9 and grows by one when the next free code no longer     *)
(* fits.  The codes of one width are written in groups of eight; when the  *)
(* width changes, the group in progress is padded to its full length.  It  *)
(* emits no CLEAR on inputs this short (its first checkpoint is at 10000   *)
(* input bytes).                                                           *)

\* The encoder after a prefix of the input: ent the code of the longest
\* match in progress, table the pairs <<prefix code, byte>> added so far
\* (the k-th pair has the code first + k - 1), codes the codes written.
RefStep(st, c, first, maxmaxcode) ==
    LET hit == { k \in 1..Len(st.table) : st.table[k] = <<st.ent, c>> } IN
    IF hit # {}
    THEN [st EXCEPT !.ent = first + (CHOOSE k \in hit : TRUE) - 1]
    ELSE [ ent |-> c,
           table |-> IF first + Len(st.table) < maxmaxcode
                     THEN Append(st.table, <<st.ent, c>>) ELSE st.table,
           codes |-> Append(st.codes, st.ent) ]

\* The input bytes i .. j, one after the other.
RECURSIVE RefRun(_, _, _, _, _, _)
RefRun(st, input, i, j, first, maxmaxcode) ==
    IF i > j \/ i > Len(input) THEN st
    ELSE LET nx == RefStep(st, input[i], first, maxmaxcode) IN
         IF nx.ent >= 0 THEN RefRun(nx, input, i + 1, j, first, maxmaxcode)
         ELSE nx

\* The input from byte i on, in runs of sixteen bytes.
RECURSIVE RefRuns(_, _, _, _, _)
RefRuns(st, input, i, first, maxmaxcode) ==
    IF i > Len(input) THEN st
    ELSE LET nx == RefRun(st, input, i, i + 15, first, maxmaxcode) IN
         IF nx.ent >= 0 THEN RefRuns(nx, input, i + 16, first, maxmaxcode)
         ELSE nx

RefCodes(input, first, maxmaxcode) ==
    LET st == RefRuns([ent |-> input[1], table |-> <<>>, codes |-> <<>>],
                      input, 2, first, maxmaxcode) IN
    Append(st.codes, st.ent)

\* The whole bytes of the accumulator.
RECURSIVE Drain(_, _)
Drain(acc, bits) ==
    IF bits < 8 THEN [bytes |-> <<>>, acc |-> acc, bits |-> bits]
    ELSE LET d == Drain(acc \div 256, bits - 8) IN
         [d EXCEPT !.bytes = <<acc % 256>> \o @]

\* The writer after some codes: n_bits the width, free_ent the next free
\* code, ingroup the codes already in the group of eight, acc the bits not
\* yet written.  Writing a code after which free_ent no longer fits the
\* width pads the group with zero bits and widens.
PackStep(st, code, maxbits) ==
    LET grown == (st.ingroup + 1) % 8
        widen == st.free_ent > 2^st.n_bits - 1 /\ st.n_bits < maxbits
        padbits == IF widen /\ grown # 0 THEN (8 - grown) * st.n_bits ELSE 0
        d == Drain(st.acc + code * 2^st.bits, st.bits + st.n_bits + padbits)
    IN  [ bytes |-> st.bytes \o d.bytes,
          n_bits |-> IF widen THEN st.n_bits + 1 ELSE st.n_bits,
          free_ent |-> IF st.free_ent < 2^maxbits THEN st.free_ent + 1
                       ELSE st.free_ent,
          ingroup |-> IF widen THEN 0 ELSE grown,
          acc |-> d.acc, bits |-> d.bits ]

RECURSIVE PackRun(_, _, _, _, _)
PackRun(st, codes, i, j, maxbits) ==
    IF i > j \/ i > Len(codes) THEN st
    ELSE LET nx == PackStep(st, codes[i], maxbits) IN
         IF nx.bits >= 0 THEN PackRun(nx, codes, i + 1, j, maxbits) ELSE nx

RECURSIVE PackRuns(_, _, _, _)
PackRuns(st, codes, i, maxbits) ==
    IF i > Len(codes) THEN st
    ELSE LET nx == PackRun(st, codes, i, i + 15, maxbits) IN
         IF nx.bits >= 0 THEN PackRuns(nx, codes, i + 16, maxbits) ELSE nx

RefPack(codes, first, maxbits) ==
    LET st == PackRuns([ bytes |-> <<>>, n_bits |-> 9, free_ent |-> first,
                         ingroup |-> 0, acc |-> 0, bits |-> 0 ],
                       codes, 1, maxbits) IN
    IF st.bits > 0 THEN Append(st.bytes, st.acc) ELSE st.bytes

RefCompress(input, maxbits, block_mode) ==
    <<31, 157, maxbits + (IF block_mode THEN 128 ELSE 0)>> \o
    IF input = <<>> THEN <<>>
    ELSE RefPack(RefCodes(input, IF block_mode THEN 257 ELSE 256, 2^maxbits),
                 IF block_mode THEN 257 ELSE 256, maxbits)

-----------------------------------------------------------------------------
(* Spec: process_tar.  No decoder of the second specification runs.        *)
NoPlain == [encoded |-> FALSE, bytes |-> <<>>]

ZUnused ==
    /\ inner = <<>>
    /\ inpos = 0
    /\ zd = <<>>
    /\ rd = <<>>
    /\ plain = <<>>
    /\ out = <<>>

NUnused ==
    /\ fname = <<>>
    /\ named = <<>>

Init ==
    /\ file_map \in Manifests
    /\ pc = "next"
    /\ nread = 0
    /\ cur = NoEntry
    /\ curpos = 0
    /\ pending = <<>>
    /\ curtask = 0
    /\ upload_handles = <<>>
    /\ joining = 0
    /\ processed_files = {}
    /\ tasks = <<>>
    /\ result = Running
    /\ xml = "none"
    /\ ZUnused
    /\ NUnused

Traversal ==
    \/ \E e \in Entries : EntryError(e) \/ SkipEntry(e) \/ StartEntry(e)
    \/ ReadChunk
    \/ ReadEof
    \/ ReadErr
    \/ SendOk
    \/ SendErr
    \/ JoinOldest
    \/ EndOfArchive
    \/ JoinFinal
    \/ CrossCheck
    \/ XmlCreate
    \/ XmlWrite
    \/ XmlClose

Upload ==
    \E i \in 1..MaxEntries :
        \/ i \in TaskIds /\ TaskCreate(i)
        \/ i \in TaskIds /\ TaskRecv(i)
        \/ i \in TaskIds /\ TaskWrite(i)
        \/ i \in TaskIds /\ TaskClose(i)

Next == Traversal \/ Upload

Spec == Init /\ [][Next]_vars

-----------------------------------------------------------------------------
(* SpecLive: process_tar under fair scheduling.  The traversal task takes  *)
(* its next step whenever it can (it is the future main awaits), every     *)
(* spawned upload task is polled again whenever it can proceed (tokio      *)
(* schedules every ready task), and every remote operation returns.  The   *)
(* manifest lists "a"; the archive is made of "a.gz", of the declared      *)
(* length, long enough to fill the channel and block a send, or with a     *)
(* decoder failing after one byte, of "c" and of an unreadable entry.      *)
LiveEntries ==
    { Entry(<<"a", ".", "g", "z">>, 1, FALSE),
      Entry(<<"a", ".", "g", "z">>, ChanCap + 1, FALSE),
      Entry(<<"a", ".", "g", "z">>, 1, TRUE),
      Entry(<<"c">>, 1, FALSE),
      BadEntry }

InitLive ==
    /\ Init
    /\ file_map = [n \in {NameA} |-> DeclaredSize(n)]

TraversalLive ==
    \/ \E e \in LiveEntries : EntryError(e) \/ SkipEntry(e) \/ StartEntry(e)
    \/ ReadChunk
    \/ ReadEof
    \/ ReadErr
    \/ SendOk
    \/ SendErr
    \/ JoinOldest
    \/ EndOfArchive
    \/ JoinFinal
    \/ CrossCheck
    \/ XmlCreate
    \/ XmlWrite
    \/ XmlClose

TaskStep(i) ==
    /\ i \in TaskIds
    /\ TaskCreate(i) \/ TaskRecv(i) \/ TaskWrite(i) \/ TaskClose(i)

NextLive == TraversalLive \/ Upload

SpecLive ==
    /\ InitLive
    /\ [][NextLive]_vars
    /\ WF_vars(TraversalLive)
    /\ \A i \in 1..MaxEntries : WF_vars(TaskStep(i))

-----------------------------------------------------------------------------
(* SpecZ: one ZDecoder over one input stream, read to the end by a caller  *)
(* whose buffers hold 1 .. ZBufLen bytes.  The streams are the encodings   *)
(* of short byte sequences and of one sequence long enough for the code    *)
(* width to grow, at every max_code_bits and both block-mode settings, and *)
(* raw byte sequences: all the short ones over RawBytes, and two with a    *)
(* well-formed header, one holding a CLEAR and one an unallocated code.    *)
MaxPlain == 3
LongLen == 259
MaxRaw == 4

PlainBytes == {97, 98}
RawBytes == {0, 31, 157}
MaxBits == 9..16

SeqsUpTo(S, n) == UNION { [1..k -> S] : k \in 0..n }

Long == [i \in 1..LongLen |-> (i - 1) % 256]

\* A repetition whose fourth code is the one being allocated.
Rep == <<97, 98, 97, 98, 97, 98, 97>>

Plains == SeqsUpTo(PlainBytes, MaxPlain) \cup {Long, Rep}

Encoded ==
    { [ inner |-> RefCompress(p, mb, bm),
        plain |-> [encoded |-> TRUE, bytes |-> p] ] :
      p \in Plains, mb \in MaxBits, bm \in BOOLEAN }

\* Codes 97, 256, 98 and code 300, nine bits each, in block mode.
WithClear == <<31, 157, 144, 97, 0, 138, 1>>
WithBadCode == <<31, 157, 144, 44, 1>>

\* Codes written low bits first, the k-th at the width widths[k], with no
\* padding.
BitStep(st, code, width) ==
    LET d == Drain(st.acc + code * 2^st.bits, st.bits + width) IN
    [bytes |-> st.bytes \o d.bytes, acc |-> d.acc, bits |-> d.bits]

RECURSIVE BitRun(_, _, _, _, _)
BitRun(st, codes, widths, i, j) ==
    IF i > j \/ i > Len(codes) THEN st
    ELSE LET nx == BitStep(st, codes[i], widths[i]) IN
         IF nx.bits >= 0 THEN BitRun(nx, codes, widths, i + 1, j) ELSE nx

RECURSIVE BitRuns(_, _, _, _)
BitRuns(st, codes, widths, i) ==
    IF i > Len(codes) THEN st
    ELSE LET nx == BitRun(st, codes, widths, i, i + 15) IN
         IF nx.bits >= 0 THEN BitRuns(nx, codes, widths, i + 16) ELSE nx

PackBits(codes, widths) ==
    LET st == BitRuns([bytes |-> <<>>, acc |-> 0, bits |-> 0], codes, widths, 1) IN
    IF st.bits > 0 THEN Append(st.bytes, st.acc) ELSE st.bytes

\* Every sequence of up to MaxCodes codes out of a root, CLEAR and the first
\* two codes to allocate, nine bits each, at max_code_bits 16 with block
\* mode on and off.
MaxCodes == 4
RawCodes == {97, 256, 257, 258}
CodeStreams ==
    { <<31, 157, h2>> \o PackBits(cs, [k \in 1..Len(cs) |-> 9]) :
      h2 \in {144, 16}, cs \in SeqsUpTo(RawCodes, MaxCodes) }

\* The codes of Long in block mode, 256 of them nine bits wide and the
\* others ten, then a CLEAR at ten bits, then at nine bits the code 257,
\* which Long had allocated.
AfterClear == <<257>>
LongClear ==
    LET cs == RefCodes(Long, 257, 2^16) IN
    <<31, 157, 144>> \o
    PackBits(cs \o <<CLEAR>> \o AfterClear,
             [k \in 1..(Len(cs) + 1 + Len(AfterClear)) |->
                 IF k <= 256 \/ k > Len(cs) + 1 THEN 9 ELSE 10])

Raw ==
    { [inner |-> r, plain |-> NoPlain] :
      r \in SeqsUpTo(RawBytes, MaxRaw) \cup {WithClear, WithBadCode, LongClear}
             \cup CodeStreams }

PUnused ==
    /\ file_map = [n \in {} |-> 0]
    /\ pc = "next"
    /\ nread = 0
    /\ cur = NoEntry
    /\ curpos = 0
    /\ pending = <<>>
    /\ curtask = 0
    /\ upload_handles = <<>>
    /\ joining = 0
    /\ processed_files = {}
    /\ tasks = <<>>
    /\ result = Running
    /\ xml = "none"

ZInit ==
    /\ \E s \in Encoded \cup Raw : inner = s.inner /\ plain = s.plain
    /\ inpos = 0
    /\ zd = empty
    /\ rd = [NotReading EXCEPT !.pc = "new"]
    /\ out = <<>>
    /\ PUnused
    /\ NUnused

ZNext ==
    \/ ZNew
    \/ \E n \in 1..ZBufLen : ZRead(n)
    \/ ZCopy
    \/ ZReturn
    \/ ZEof
    \/ ZClear
    \/ ZDecode
    \/ ZInvalid

SpecZ == ZInit /\ [][ZNext]_vars

-----------------------------------------------------------------------------
(* SpecN: the naming of one entry, in the order of process_tar: the lookup *)
(* name (processor.rs 41), the codec (57) and the target name (58).  The   *)
(* paths are a stem followed by up to MaxSuffixes suffixes.                *)
MaxSuffixes == 3

Stems == {<<"a">>, <<"b">>}
Suffixes == {DotGz, DotZ, <<".", "t">>}

RECURSIVE Concat(_)
Concat(parts) == IF parts = <<>> THEN <<>> ELSE Head(parts) \o Concat(Tail(parts))

Paths ==
    { st \o Concat(sfx) : st \in Stems, sfx \in SeqsUpTo(Suffixes, MaxSuffixes) }

NoName == [pc |-> "lookup", lookup |-> <<>>, format |-> "", target |-> <<>>]

NInit ==
    /\ fname \in Paths
    /\ named = NoName
    /\ PUnused
    /\ ZUnused

\* processor.rs 41.
NLookup ==
    /\ named.pc = "lookup"
    /\ named' = [named EXCEPT !.pc = "format", !.lookup = lookup_name(fname)]
    /\ UNCHANGED <<fname, pvars, zvars>>

\* processor.rs 57.
NFormat ==
    /\ named.pc = "format"
    /\ named' = [named EXCEPT !.pc = "target", !.format = get_format(fname)]
    /\ UNCHANGED <<fname, pvars, zvars>>

\* processor.rs 58.
NTarget ==
    /\ named.pc = "target"
    /\ named' = [named EXCEPT !.pc = "done", !.target = target_name(fname)]
    /\ UNCHANGED <<fname, pvars, zvars>>

NNext == NLookup \/ NFormat \/ NTarget

SpecN == NInit /\ [][NNext]_vars

-----------------------------------------------------------------------------
(* Notions the properties of process_tar share.                            *)

Returned == result # Running
Failed == result.kind \notin {"running", "Ok"}

\* The tasks started and not yet joined: the handles held in upload_handles,
\* the handle being awaited, and the task spawned for the current entry
\* whose handle is not pushed yet.
Unjoined ==
    { i \in TaskIds :
        \/ \E k \in 1..Len(upload_handles) : upload_handles[k] = i
        \/ i = joining
        \/ i = curtask }

AllJoinedOk ==
    /\ upload_handles = <<>>
    /\ joining = 0
    /\ curtask = 0
    /\ \A i \in TaskIds : tasks[i].pc = "done" /\ tasks[i].outcome = "Ok"

RemoteFailures == {"Create", "Write", "Close"}

\* The step is the handler of archive entry e.
ProcessEntry(e) == EntryError(e) \/ SkipEntry(e) \/ StartEntry(e)

\* C1 as stated - size verification: a finished upload task whose byte
\* count differs from the manifest's size has the outcome SizeMismatch, and
\* process_tar does not return success in a run with such a task.
C1_AsStated ==
    /\ \A i \in TaskIds :
         (tasks[i].pc = "done" /\ tasks[i].total_written # tasks[i].expected)
            => tasks[i].outcome = "SizeMismatch"
    /\ result = Success =>
         \A i \in TaskIds : tasks[i].total_written = tasks[i].expected

\* C1 as amended - size verification: a finished upload task whose byte
\* count differs from the manifest's size never has the outcome Ok: its
\* outcome is SizeMismatch or, when a remote create, write or close failed
\* first, that failure; and process_tar does not return success in a run
\* with such a task.
C1_SizeVerification ==
    /\ \A i \in TaskIds :
         (tasks[i].pc = "done" /\ tasks[i].total_written # tasks[i].expected)
            => tasks[i].outcome \in {"SizeMismatch"} \cup RemoteFailures
    /\ \A i \in TaskIds :
         tasks[i].outcome = "SizeMismatch"
            => tasks[i].total_written # tasks[i].expected
    /\ result = Success =>
         \A i \in TaskIds : /\ tasks[i].pc = "done"
                            /\ tasks[i].total_written = tasks[i].expected

\* An entry longer than declared was written whole, reported as
\* SizeMismatch, and made the run fail.
C1_Witness ==
    \E i \in TaskIds :
        /\ tasks[i].outcome = "SizeMismatch"
        /\ tasks[i].total_written > tasks[i].expected
        /\ tasks[i].written = tasks[i].produced
        /\ result = Failure("SizeMismatch", tasks[i].path)

\* C2 - concurrency throttle: at any instant at most InFlightCap upload
\* tasks are started and not yet joined, and a task is started only when
\* fewer than InFlightCap handles are pending, every older task having been
\* joined with success, oldest first.
C2_Bound == Cardinality(Unjoined) <= InFlightCap

C2_Admission ==
    Len(tasks') > Len(tasks) =>
        /\ Len(upload_handles) < InFlightCap
        /\ joining = 0
        /\ \A i \in TaskIds :
             \/ tasks[i].pc = "done" /\ tasks[i].outcome = "Ok"
             \/ \E k \in 1..Len(upload_handles) : upload_handles[k] = i
        /\ upload_handles =
             [k \in 1..Len(upload_handles) |->
                Len(tasks) - Len(upload_handles) + k]

C2_Throttle == [](C2_Bound) /\ [][C2_Admission]_vars

\* The cap is reached and the oldest task joined: the next entry's task
\* starts while an earlier one is still pending.
C2_Witness ==
    /\ Len(tasks) = InFlightCap + 1
    /\ Cardinality(Unjoined) = InFlightCap
    /\ tasks[1].pc = "done"
    /\ pc = "read"

\* The channel of the current entry is full.
ChannelFull == curtask # 0 /\ Len(tasks[curtask].chan) = ChanCap

\* Chunks are non-empty and fit the read buffer.
ChunkOk(c) == Len(c) >= 1 /\ Len(c) <= BufSize

C3_Occupancy ==
    \A i \in TaskIds :
        /\ Len(tasks[i].chan) <= ChanCap
        /\ \A k \in 1..Len(tasks[i].chan) : ChunkOk(tasks[i].chan[k])

\* C3 as stated - pipeline backpressure: a channel never buffers more than
\* ChanCap chunks of at most BufSize bytes, and while the channel is full
\* the decompression loop neither reads nor enqueues a further chunk.
C3_AsStated ==
    /\ [](C3_Occupancy)
    /\ [][ChannelFull => /\ tasks'[curtask].produced = tasks[curtask].produced
                         /\ Len(tasks'[curtask].chan) <= Len(tasks[curtask].chan)]_vars

\* C3 as amended - pipeline backpressure: a channel never buffers more than
\* ChanCap chunks of at most BufSize bytes; with the channel full the
\* decompression loop reads at most one further chunk, which it holds
\* without enqueuing it, and reads nothing more, until the upload task has
\* taken a chunk (or has ended).
C3_Blocked ==
    (ChannelFull /\ pc = "send") =>
        /\ curpos' = curpos
        /\ pending' = pending
        /\ Len(tasks'[curtask].chan) <= Len(tasks[curtask].chan)
        /\ pc' = "send"

C3_Backpressure ==
    /\ [](C3_Occupancy /\ (pc = "send" => ChunkOk(pending))
                       /\ (pc # "send" => pending = <<>>))
    /\ [][C3_Blocked]_vars

\* The loop holds a chunk it cannot enqueue: the channel is full and the
\* upload task has not taken a chunk yet.
C3_Witness ==
    /\ pc = "send"
    /\ ChannelFull
    /\ tasks[curtask].rx
    /\ curpos = ChanCap + 1

\* C4 - manifest cross-check: the cross-check runs only once the archive is
\* scanned and every upload task joined with success; if a manifest
\* filename was never observed it makes process_tar fail with
\* MissingInArchive naming such a filename, and only then does the run end
\* with that failure.
C4_State ==
    /\ pc = "check" => AllJoinedOk
    /\ result.kind = "MissingInArchive" =>
         /\ AllJoinedOk
         /\ result.name \in DOMAIN file_map
         /\ result.name \notin processed_files
         /\ xml = "none"
    /\ result = Success => DOMAIN file_map \subseteq processed_files
    /\ \A i \in TaskIds : lookup_name(tasks[i].path) \in processed_files

C4_Step ==
    (pc = "check" /\ ~(DOMAIN file_map \subseteq processed_files)) =>
        /\ result'.kind = "MissingInArchive"
        /\ result'.name \in DOMAIN file_map \ processed_files
        /\ pc' = "done"

C4_CrossCheck == [](C4_State) /\ [][C4_Step]_vars

\* The scenario of the specification: manifest {a, b}, an archive of a.gz
\* and c; a is uploaded, c skipped, the run fails naming b.
C4_Witness ==
    /\ DOMAIN file_map = {NameA, NameB}
    /\ nread = 2
    /\ Len(tasks) = 1
    /\ tasks[1].path = <<"a", ".", "g", "z">>
    /\ tasks[1].outcome = "Ok"
    /\ tasks[1].written # <<>>
    /\ result = Failure("MissingInArchive", NameB)

\* C5 - skipping unmanifested entries: the handler of an entry whose
\* normalized filename is not in the manifest starts no upload task (hence
\* opens no remote object and creates no channel), leaves the observed-set,
\* the pending handles and the manifest upload as they are, does not end
\* the run, and the traversal goes on to the next entry.
Unmanifested(e) ==
    e.ok /\ TrimEndMatches(TrimEndMatches(e.path, DotGz), DotZ) \notin DOMAIN file_map

C5_Frame ==
    \A e \in Entries :
        (Unmanifested(e) /\ ProcessEntry(e)) =>
            /\ tasks' = tasks
            /\ processed_files' = processed_files
            /\ upload_handles' = upload_handles
            /\ joining' = joining
            /\ xml' = xml
            /\ result' = Running
            /\ pc' = "next"
            /\ nread' = nread + 1

C5_Skip == [][C5_Frame]_vars

\* An entry was skipped while a task of an earlier entry is pending, and
\* the run goes on.
C5_Witness ==
    /\ nread = 2
    /\ Len(tasks) = 1
    /\ upload_handles = <<1>>
    /\ pc = "next"
    /\ result = Running

\* C6 - manifest upload ordering: the manifest upload starts only after the
\* archive is traversed, every started upload task is joined with a
\* size-verified success and every manifest filename is observed; a run
\* that ends with a failure has not completed the manifest upload, and one
\* that fails for an entry or for a missing file has not started it;
\* process_tar returns success only with the manifest upload completed.
XmlStarted == xml # "none" \/ pc \in {"xml", "xml_write", "xml_close"}

C6_ManifestLast ==
    /\ XmlStarted =>
         /\ AllJoinedOk
         /\ \A i \in TaskIds : tasks[i].total_written = tasks[i].expected
         /\ DOMAIN file_map \subseteq processed_files
         /\ pc \notin {"next", "read", "send", "throttle", "final", "check"}
    /\ Failed => xml # "closed"
    /\ (Failed /\ result.name # xml_file_path) => xml = "none"
    /\ result = Success => xml = "closed"
    /\ xml = "closed" => result = Success

\* A run with an uploaded entry ends in success, the manifest uploaded.
C6_Witness ==
    /\ result = Success
    /\ xml = "closed"
    /\ Len(tasks) >= 1
    /\ nread = MaxEntries

\* C9 as stated - failure propagation: a failure of an entry (decoder
\* failure, size mismatch, remote create/write/close failure) ends
\* process_tar only at the join of that entry's upload task, in the throttle
\* or in the final loop, with the task's outcome.
EntryFailures == {"Decompression", "SizeMismatch"} \cup RemoteFailures

C9_AsStated ==
    [][(result = Running /\ result'.kind \in EntryFailures
                         /\ result'.name # xml_file_path) =>
          /\ pc \in {"throttle", "final"}
          /\ joining # 0
          /\ tasks[joining].pc = "done"
          /\ result' = JoinFailure(tasks[joining])]_vars

\* The chunks of task i that are on their way: taken by the task and not
\* yet written, buffered in the channel, or waiting to be sent.
InFlight(i) ==
    (IF tasks[i].hand # <<>> THEN <<tasks[i].hand>> ELSE <<>>)
    \o tasks[i].chan
    \o (IF i = curtask /\ pc = "send" THEN <<pending>> ELSE <<>>)

RECURSIVE Flatten(_)
Flatten(chunks) ==
    IF chunks = <<>> THEN <<>> ELSE Head(chunks) \o Flatten(Tail(chunks))

\* C10 - per-entry byte order: as long as no remote create or write of the
\* entry's task has failed, the chunks the decompression loop produced are
\* exactly the chunks written, followed by those in flight, in order; a
\* task that reached the end of its channel has written every chunk
\* produced, and the bytes written are the entry's bytes in their order.
C10_ByteOrder ==
    \A i \in TaskIds :
        /\ tasks[i].outcome \notin {"Create", "Write"} =>
             tasks[i].produced = tasks[i].written \o InFlight(i)
        /\ tasks[i].outcome \in {"Ok", "SizeMismatch", "Close"} =>
             tasks[i].written = tasks[i].produced
        /\ \E n \in 0..MaxData :
             Flatten(tasks[i].written) = DataOf(n)
        /\ \A k \in 1..Len(tasks[i].produced) : tasks[i].produced[k] # <<>>

\* Two tasks run at once; one has written two chunks while a chunk of the
\* other is buffered, and the first still has a chunk in flight.
C10_Witness ==
    \E i, j \in TaskIds :
        /\ i # j
        /\ Len(tasks[i].written) = 2
        /\ InFlight(i) # <<>>
        /\ tasks[j].pc \in {"recv", "write"}
        /\ Len(tasks[j].written) = 1


-----------------------------------------------------------------------------
(* Notions the properties of ZDecoder share.                               *)

Constructed == rd.pc # "new"
\* The last read returned Ok(0): end of stream.
AtEndOfStream == rd.pc = "idle" /\ rd.last = 0

\* C7: for every byte sequence encoded by the reference encoder, at any
\* max_code_bits from 9 to 16 and with block mode on or off, reading the
\* ZDecoder to end of stream returns no error and yields exactly the
\* original bytes.
C7_RoundTrip ==
    plain.encoded =>
        /\ rd.pc # "failed"
        /\ AtEndOfStream => out = plain.bytes

\* C8: when the input is shorter than the three header bytes or its first
\* two bytes are not 0x1f 0x9d, every read returns Ok(0) with no byte
\* decoded, no read returns an error, and no input is consumed beyond the
\* header bytes that new inspected.
C8_HeaderRejection ==
    Constructed /\ ~HeaderOk(inner) =>
        /\ rd.pc # "failed"
        /\ rd.last \in {-1, 0}
        /\ rd.got = <<>>
        /\ out = <<>>
        /\ zd.eof
        /\ inpos = Min(3, Len(inner))

\* C8 witness: a read has returned Ok(0) on a stream with a wrong magic
\* whose bytes after the header are still unread.
C8_Witness ==
    /\ Len(inner) > 3
    /\ ~HeaderOk(inner)
    /\ AtEndOfStream
    /\ inpos = 3

-----------------------------------------------------------------------------
(* Properties of the naming of an entry.                                   *)

\* The suffix of a codec, and a name without exactly that one suffix.
SuffixOf(format) ==
    IF format = "Gzip" THEN DotGz
    ELSE IF format = "UnixCompress" THEN DotZ
    ELSE <<>>
StripOne(s, format) == SubSeq(s, 1, Len(s) - Len(SuffixOf(format)))

\* C11: the codec is Gzip for a name ending in ".gz", UnixCompress for one
\* ending in ".Z" and None otherwise, and both the lookup name and the
\* target name are the entry name without exactly the one suffix of that
\* codec, also for names carrying several suffixes.
C11_AsStated ==
    named.pc = "done" =>
        /\ named.format = (IF EndsWith(fname, DotGz) THEN "Gzip"
                           ELSE IF EndsWith(fname, DotZ) THEN "UnixCompress"
                           ELSE "None")
        /\ named.lookup = StripOne(fname, named.format)
        /\ named.target = StripOne(fname, named.format)

-----------------------------------------------------------------------------
(* Properties of the decoding steps.  A state satisfying AtCode is one in  *)
(* which read is about to call read_code; NextCode is what it will return. *)

CodeRead == AtCode /\ NextCode.some
ClearRead == CodeRead /\ zd.block_mode /\ NextCode.code = CLEAR
\* A code has been read, and the last one was a CLEAR.
JustCleared == zd.block_mode /\ zd.prefix = U32_MAX /\ inpos > 3

\* The effect of a CLEAR: nothing is emitted, the table is the seeded one,
\* the width is 9 and there is no previous code.
C12_ClearStep ==
    ClearRead =>
        /\ rd' = rd
        /\ out' = out
        /\ zd'.output_pos = Len(zd'.output_buffer)
        /\ zd'.prefixes = SeedPrefixes(TRUE)
        /\ zd'.chars = SeedChars(TRUE)
        /\ Len(zd'.prefixes) = 257
        /\ zd'.current_bits = 9
        /\ zd'.max_code = 511
        /\ zd'.prefix = U32_MAX

\* The code after a CLEAR, when it is no CLEAR: a root is emitted, any
\* other code makes read fail.
C12_NextStep ==
    JustCleared /\ CodeRead /\ NextCode.code # CLEAR =>
        IF NextCode.code < 256
        THEN /\ rd'.pc = "loop"
             /\ zd'.output_buffer = <<NextCode.code>>
             /\ zd'.prefix = NextCode.code
             /\ Len(zd'.prefixes) = 257
        ELSE rd'.pc = "failed"

\* C12 as stated: the first code after a CLEAR is a root below 256, or read
\* fails.
C12_AsStated ==
    [][JustCleared /\ CodeRead /\ NextCode.code >= 256 => rd'.pc = "failed"]_vars

\* C12: in block mode, code 256 emits nothing, leaves exactly the 257
\* seeded entries, width 9 and no previous code; the code that follows is
\* emitted if it is a root below 256, is obeyed if it is again a CLEAR, and
\* makes read fail if it is any code above 256, allocated before or not.
C12_Clear == [][C12_ClearStep /\ C12_NextStep]_vars

\* C12 witness: in LongClear the CLEAR came at width 10 with 514 entries in
\* the table, and code 257, allocated before it, then made read fail.
C12_Witness ==
    /\ inner = LongClear
    /\ rd.pc = "failed"
    /\ zd.prefix = U32_MAX
    /\ zd.current_bits = 9
    /\ Len(zd.prefixes) = 257
    /\ Len(out) + ZBufLen >= LongLen

\* A decoder built from a well-formed header.
Decoding == Constructed /\ HeaderOk(inner)
Appended == Len(zd'.prefixes) = Len(zd.prefixes) + 1

\* While the width can grow, the table fits the code space of the width.
C13_Fits ==
    Decoding /\ zd.current_bits < zd.max_bits =>
        Len(zd.prefixes) <= 2^zd.current_bits - 1

C13_Step ==
    /\ rd.pc = "new" /\ HeaderOk(inner) => zd'.current_bits = 9
    /\ Decoding =>
        /\ zd'.current_bits # zd.current_bits => Appended \/ ClearRead
        /\ Appended =>
              zd'.current_bits =
                  IF /\ Len(zd'.prefixes) > 2^zd.current_bits - 1
                     /\ zd.current_bits < zd.max_bits
                  THEN zd.current_bits + 1
                  ELSE zd.current_bits
        /\ ~ClearRead => zd'.current_bits >= zd.current_bits
        /\ zd'.max_code = 2^zd'.current_bits - 1

\* C13: the code width starts at 9; it changes only in a step that appends
\* a table entry or reads a CLEAR; the step whose append makes the entry
\* count exceed 2^width - 1 while width < max_code_bits increases it by
\* exactly one, and no other append changes it; it never decreases except
\* by a CLEAR.
C13_WidthGrowth == [](C13_Fits) /\ [][C13_Step]_vars

\* C13 witness: the 512th entry of the table of an encoded stream has made
\* the width 10.
C13_Witness ==
    /\ plain.encoded
    /\ Constructed
    /\ Len(zd.prefixes) = 512
    /\ zd.current_bits = 10

\* A decoder whose header declares a supported max_code_bits.
Supported == Decoding /\ zd.max_bits \in MaxBits
Full == Len(zd.prefixes) = 2^zd.max_bits

C14_Bounds ==
    Supported =>
        /\ zd.current_bits <= zd.max_bits
        /\ Len(zd.prefixes) <= 2^zd.max_bits
        /\ Len(zd.chars) = Len(zd.prefixes)

\* Short of a CLEAR, a step keeps every entry of the table, and keeps the
\* whole table when it is full.
C14_Step ==
    Supported /\ ~ClearRead =>
        /\ Len(zd'.prefixes) >= Len(zd.prefixes)
        /\ SubSeq(zd'.prefixes, 1, Len(zd.prefixes)) = zd.prefixes
        /\ SubSeq(zd'.chars, 1, Len(zd.chars)) = zd.chars
        /\ Full => zd'.prefixes = zd.prefixes /\ zd'.chars = zd.chars

Expansion(z, code) == expand_code(z.prefixes, z.chars, code, <<>>)

KwKwKRead ==
    /\ CodeRead
    /\ ~ClearRead
    /\ NextCode.code = Len(zd.prefixes)
    /\ zd.prefix # U32_MAX

C15_Step ==
    Supported /\ KwKwKRead =>
        LET w == Expansion(zd, zd.prefix) IN
        /\ rd'.pc = "loop"
        /\ zd'.output_buffer = Append(w, w[1])
        /\ zd'.output_pos = 0
        /\ Len(zd'.prefixes) = NextCode.code + 1
        /\ Expansion(zd', NextCode.code) = zd'.output_buffer
        /\ zd'.prefix = NextCode.code

\* C15: when the code read is the table length and there is a previous
\* code, the bytes emitted are the expansion of the previous code followed
\* by the first byte of that expansion, and after the step the table holds
\* at that code an entry whose expansion is exactly the emitted bytes.
C15_KwKwK == [][C15_Step]_vars

\* C15 witness: in an encoded stream the previous code is the entry just
\* appended, and the bytes emitted for it are at least three and not all
\* equal.
C15_Witness ==
    /\ plain.encoded
    /\ Constructed
    /\ zd.prefix = Len(zd.prefixes) - 1
    /\ zd.prefix > 256
    /\ Len(zd.output_buffer) >= 3
    /\ zd.output_buffer[1] # zd.output_buffer[2]
    /\ Expansion(zd, zd.prefix) = zd.output_buffer

UnresolvableRead ==
    /\ CodeRead
    /\ ~ClearRead
    /\ NextCode.code >= Len(zd.prefixes)
    /\ ~(NextCode.code = Len(zd.prefixes) /\ zd.prefix # U32_MAX)

C16_Step ==
    UnresolvableRead =>
        /\ rd'.pc = "failed"
        /\ zd'.prefixes = zd.prefixes
        /\ zd'.chars = zd.chars
        /\ zd'.current_bits = zd.current_bits
        /\ zd'.max_code = zd.max_code
        /\ zd'.prefix = zd.prefix
        /\ zd'.output_buffer = <<>>
        /\ out' = out

\* C16: a code that is no CLEAR, is not below the table length and is not
\* the table length with a previous code present makes read fail; the
\* failing step appends no entry, leaves the width and the previous code as
\* they were, and emits no byte for that code.
C16_Malformed == [][C16_Step]_vars

\* C16 witness: read has failed on the second code of a stream, after the
\* first, a root, had been delivered.
C16_Witness ==
    /\ rd.pc = "failed"
    /\ zd.prefix = 97
    /\ out = <<97>>
    /\ Len(zd.prefixes) = SeedLen(zd.block_mode)
    /\ zd.output_buffer = <<>>

\* Code c is held at index c + 1 of prefixes and chars.
IsCode(z, c) == c >= 0 /\ c < Len(z.prefixes)
IsRoot(z, c) == z.prefixes[c + 1] = U32_MAX

\* C18: with max_code_bits in 9..16, in every reachable state the previous
\* code is the sentinel or a code of the table; the seeded codes are
\* roots, and the prefix link of every other entry is a code smaller than
\* the entry's own, so that an expansion ends at a root and stays inside
\* the table, also after a CLEAR.
C18_PrefixLinks ==
    Supported =>
        /\ zd.prefix = U32_MAX \/ IsCode(zd, zd.prefix)
        /\ \A c \in 0..(Len(zd.prefixes) - 1) :
              IF c < SeedLen(zd.block_mode)
              THEN IsRoot(zd, c)
              ELSE zd.prefixes[c + 1] >= 0 /\ zd.prefixes[c + 1] < c

\* C18 witness: in an encoded stream the previous code is an allocated
\* code whose prefix link is itself an allocated code.
C18_Witness ==
    /\ plain.encoded
    /\ Supported
    /\ zd.prefix > 256
    /\ IsCode(zd, zd.prefix)
    /\ zd.prefixes[zd.prefix + 1] > 256

-----------------------------------------------------------------------------
(* Properties of process_tar under fair scheduling.                        *)

Closed(i) == i \in TaskIds /\ ~tasks[i].tx
Terminated(i) == i \in TaskIds /\ tasks[i].pc = "done"

\* The task has left its receive loop on None: it closed the remote object
\* and ran the size check.
ClosedRemote(i) == Terminated(i) /\ tasks[i].outcome \in {"Ok", "SizeMismatch", "Close"}

Sending == pc = "send"

\* A send to a dropped Receiver ends the loop of the entry.
C19_SendFails ==
    Sending /\ ~tasks[curtask].rx /\ pc' # pc =>
        /\ pc' \in {"next", "throttle"}
        /\ cur' = NoEntry
        /\ ~tasks'[curtask].tx

\* C19: under fair scheduling and terminating remote operations the
\* decompression loop never stays inside a send for ever: the upload task
\* takes a chunk, or it has ended and the send fails, which ends the loop;
\* and process_tar over a finite archive always returns, with success or
\* with a failure.
C19_NoDeadlock ==
    /\ Sending ~> ~Sending
    /\ <>Returned
    /\ [][C19_SendFails]_vars

\* C19 witness: the loop is inside a send on a full channel while the
\* upload task, its remote object created, has not yet taken a chunk.
C19_Witness ==
    /\ Sending
    /\ ChannelFull
    /\ pending # <<>>
    /\ tasks[curtask].rx
    /\ tasks[curtask].pc = "recv"

-----------------------------------------------------------------------------
(* Properties of the remote targets.                                       *)

\* The task has created its remote object and has not yet returned.
Writing(i) == tasks[i].pc \in {"recv", "write"}

\* C20: at every instant no two upload tasks that are started and not yet
\* finished write to the same remote target path, also when two entries
\* of the archive normalize to the same manifest filename.
C20_AsStated ==
    \A i, j \in TaskIds :
        i # j /\ Writing(i) /\ Writing(j) => tasks[i].target # tasks[j].target

==========================================================================
